---- MODULE Spec2Model ----
(***************************************************************************)
(* Model of the trivia API (backend/flaskr/__init__.py): the two tables    *)
(* (questions, categories), the Flask route table and the six request      *)
(* handlers with their error responders.                                   *)
(*                                                                         *)
(* Text is a sequence of one-character strings, so that ILIKE pattern      *)
(* matching and substring tests are computed character by character.       *)
(* A JSON value is a record [t, n, s]: t is "absent" (key not in the       *)
(* body), "int" (value n) or "str" (text s).                               *)
(***************************************************************************)
EXTENDS Integers, Sequences, FiniteSets, TLC

VARIABLES questions, categories, nextId, req, resp, before, created, search, nreq

\* questions, categories: the two tables, in physical order
\* nextId: the next value of the questions id sequence
\* req, resp: the last request served and its response
\* before: the questions table as it was when that request was taken up
\* created: the row of the last successful create, NoRow after a later delete
\* search: the search request in flight between its two queries
\* nreq: the number of requests served
vars == <<questions, categories, nextId, req, resp, before, created, search, nreq>>

(* ------------------------------ bounds -------------------------------- *)

\* number of requests served in one run
MaxRequests == 2
\* the largest seeded store holds QUESTIONS_PER_PAGE + MaxExtra questions
MaxExtra == 1
\* page numbers requested range over -MaxPage .. MaxPage
MaxPage == 2

(* ----------------------------- constants ------------------------------ *)

QUESTIONS_PER_PAGE == 10

\* the test database is seeded with six categories
NumCategories == 6

(* ----------------------------- JSON values ---------------------------- *)

Absent == [t |-> "absent", n |-> 0, s |-> <<>>]
JInt(n) == [t |-> "int", n |-> n, s |-> <<>>]
JStr(s) == [t |-> "str", n |-> 0, s |-> s]

\* Python's '' literal
EmptyStr == JStr(<<>>)

\* dict.get(key, default): the value, or the default when the key is absent
DictGet(body, key, default) ==
  IF body[key].t = "absent" THEN default ELSE body[key]

\* request.args.get('page', 1, int): the default also when int() fails
ArgsGetPage(arg) ==
  IF arg.t = "int" THEN arg.n ELSE 1

(* ------------------------------- text --------------------------------- *)

Lower(c) ==
  IF c = "A" THEN "a" ELSE IF c = "B" THEN "b" ELSE c

RECURSIVE Like(_, _)
\* SQL LIKE on lower-cased operands: % matches any run, _ any one character
Like(p, t) ==
  IF p = <<>> THEN t = <<>>
  ELSE IF Head(p) = "%"
       THEN Like(Tail(p), t) \/ (t # <<>> /\ Like(p, Tail(t)))
       ELSE /\ t # <<>>
            /\ (Head(p) = "_" \/ Lower(Head(p)) = Lower(Head(t)))
            /\ Like(Tail(p), Tail(t))

\* Question.question.ilike(f'%{search_term}%')
ILikeTerm(text, term) == Like(<<"%">> \o term \o <<"%">>, text)

DigitVal(c) ==
  IF c = "0" THEN 0 ELSE IF c = "1" THEN 1 ELSE IF c = "2" THEN 2 ELSE 7

IsDigit(c) == c \in {"0", "1", "2", "7"}

RECURSIVE TextToInt(_, _)
TextToInt(s, acc) ==
  IF s = <<>> THEN acc ELSE TextToInt(Tail(s), 10 * acc + DigitVal(Head(s)))

(* ------------------------------ tables -------------------------------- *)

NoRow == [id |-> 0, question |-> <<>>, answer |-> <<>>, category |-> 0, difficulty |-> 0]

Ids(rows) == {rows[i].id : i \in DOMAIN rows}

\* an integer column accepts an integer or a text of digits
IntColumnAccepts(v) ==
  \/ v.t = "int"
  \/ v.t = "str" /\ v.s # <<>> /\ \A i \in DOMAIN v.s : IsDigit(v.s[i])

IntColumnValue(v) ==
  IF v.t = "int" THEN v.n ELSE TextToInt(v.s, 0)

TextColumnAccepts(v) == v.t = "str"

\* Question.insert(): raises when a column rejects its value
InsertAccepts(question, answer, difficulty, category) ==
  /\ TextColumnAccepts(question)
  /\ TextColumnAccepts(answer)
  /\ IntColumnAccepts(difficulty)
  /\ IntColumnAccepts(category)

\* Question(question, answer, difficulty, category) with the generated id
NewQuestion(id, question, answer, difficulty, category) ==
  [id |-> id, question |-> question.s, answer |-> answer.s,
   category |-> IntColumnValue(category), difficulty |-> IntColumnValue(difficulty)]

\* Question.format()
FormatQuestion(q) ==
  [id |-> q.id, question |-> q.question, answer |-> q.answer,
   category |-> q.category, difficulty |-> q.difficulty]

\* Category.format()
FormatCategory(c) == [id |-> c.id, type |-> c.type]

\* [question.format() for question in questions]
FormatQuestions(rows) == [i \in DOMAIN rows |-> FormatQuestion(rows[i])]

\* [category.format() for category in categories]
FormatCategories(cats) == [i \in DOMAIN cats |-> FormatCategory(cats[i])]

\* query.order_by(<Model>.id).all(): ids are primary keys, hence distinct
OrderById(rows) ==
  LET Rank(i) == Cardinality({j \in DOMAIN rows : rows[j].id < rows[i].id}) + 1
  IN  [k \in DOMAIN rows |-> rows[CHOOSE i \in DOMAIN rows : Rank(i) = k]]

\* Python's list[start:end] with negative indices counted from the end
PySlice(list, start, end) ==
  LET n == Len(list)
      Clamp(i) == IF i < 0 THEN (IF i + n < 0 THEN 0 ELSE i + n)
                  ELSE (IF i > n THEN n ELSE i)
      s == Clamp(start)
      e == Clamp(end)
  IN  IF s >= e THEN <<>> ELSE SubSeq(list, s + 1, e)

(* ---------------------------- responses ------------------------------- *)

\* keys: the keys of the JSON body; a body that is not JSON has none
NoResp ==
  [status |-> 0, keys |-> {}, success |-> FALSE, error |-> 0, message |-> "",
   questions |-> <<>>, total_questions |-> 0, categories |-> <<>>,
   current_category |-> ""]

\* @app.errorhandler(404)
not_found ==
  [NoResp EXCEPT !.status = 404, !.keys = {"success", "error", "message"},
                 !.success = FALSE, !.error = 404,
                 !.message = "Resource not found"]

\* @app.errorhandler(500)
internal_server_error ==
  [NoResp EXCEPT !.status = 500, !.keys = {"success", "error", "message"},
                 !.success = FALSE, !.error = 500,
                 !.message = "An error has occured, please try again"]

\* @app.errorhandler(422)
unprocesable_entity ==
  [NoResp EXCEPT !.status = 422, !.keys = {"success", "error", "message"},
                 !.success = FALSE, !.error = 422,
                 !.message = "Unprocessable entity"]

\* abort(code): the response of the error handler registered for the code
abort(code) ==
  IF code = 404 THEN not_found
  ELSE IF code = 422 THEN unprocesable_entity
  ELSE internal_server_error

\* a path that matches a rule whose methods exclude the request's method:
\* no handler is registered for 405, the body is the framework's HTML page
method_not_allowed == [NoResp EXCEPT !.status = 405]

(* ----------------------------- handlers ------------------------------- *)

\* variant of get_all_categories: the last row is dropped
get_all_categories_DropsLast(cats) ==
  [NoResp EXCEPT !.status = 200, !.keys = {"success", "categories"},
                 !.success = TRUE,
                 !.categories = FormatCategories(SubSeq(cats, 1, Len(cats) - 1))]

\* GET /categories
get_all_categories(cats) ==
  [NoResp EXCEPT !.status = 200, !.keys = {"success", "categories"},
                 !.success = TRUE,
                 !.categories = FormatCategories(cats)]

\* variant of get_questions: total_questions counts the page, not the table
get_questions_CountsPage(rows, cats, arg) ==
  LET page == ArgsGetPage(arg)
      start == (page - 1) * QUESTIONS_PER_PAGE
      end == start + QUESTIONS_PER_PAGE
      all == FormatQuestions(OrderById(rows))
      current_questions == PySlice(all, start, end)
  IN  IF Len(current_questions) = 0 THEN abort(404)
      ELSE [NoResp EXCEPT
              !.status = 200,
              !.keys = {"success", "total_questions", "categories", "questions"},
              !.success = TRUE,
              !.total_questions = Len(current_questions),
              !.categories = FormatCategories(OrderById(cats)),
              !.questions = current_questions]

\* GET /questions?page=N
get_questions(rows, cats, arg) ==
  LET page == ArgsGetPage(arg)
      start == (page - 1) * QUESTIONS_PER_PAGE
      end == start + QUESTIONS_PER_PAGE
      all == FormatQuestions(OrderById(rows))
      total_questions == Len(all)
      current_questions == PySlice(all, start, end)
  IN  IF Len(current_questions) = 0 THEN abort(404)
      ELSE [NoResp EXCEPT
              !.status = 200,
              !.keys = {"success", "total_questions", "categories", "questions"},
              !.success = TRUE,
              !.total_questions = total_questions,
              !.categories = FormatCategories(OrderById(cats)),
              !.questions = current_questions]

\* Question.query.get(id) found a row; otherwise None.delete() raises
DeleteFinds(rows, id) == id \in Ids(rows)

\* question.delete(): the table without the row of that id
DeleteRow(rows, id) ==
  LET Other(q) == q.id # id IN SelectSeq(rows, Other)

\* variant of delete_question: a missing row is reported as 404
delete_question_NotFound(rows, id) ==
  IF DeleteFinds(rows, id)
  THEN [NoResp EXCEPT !.status = 200, !.keys = {"success", "message"},
                      !.success = TRUE,
                      !.message = "Question successfully deleted"]
  ELSE abort(404)

\* DELETE /questions/<int:id>: the response
delete_question(rows, id) ==
  IF DeleteFinds(rows, id)
  THEN [NoResp EXCEPT !.status = 200, !.keys = {"success", "message"},
                      !.success = TRUE,
                      !.message = "Question successfully deleted"]
  ELSE abort(422)

\* variant of CreateValid: the answer is not validated
CreateValid_SkipsAnswer(body) ==
  ~ \/ DictGet(body, "question", EmptyStr) = EmptyStr
    \/ DictGet(body, "difficulty", EmptyStr) = EmptyStr
    \/ DictGet(body, "category", EmptyStr) = EmptyStr

\* the validation of create_question: no field is ''
CreateValid(body) ==
  ~ \/ DictGet(body, "question", EmptyStr) = EmptyStr
    \/ DictGet(body, "answer", EmptyStr) = EmptyStr
    \/ DictGet(body, "difficulty", EmptyStr) = EmptyStr
    \/ DictGet(body, "category", EmptyStr) = EmptyStr

\* variant of QuestionOf: difficulty and category are passed in each other's place
QuestionOf_SwapsFields(body, id) ==
  NewQuestion(id, DictGet(body, "question", EmptyStr),
                  DictGet(body, "answer", EmptyStr),
                  DictGet(body, "category", EmptyStr),
                  DictGet(body, "difficulty", EmptyStr))

\* Question(question=question, answer=answer, difficulty=difficulty,
\* category=category) from the body's fields
QuestionOf(body, id) ==
  NewQuestion(id, DictGet(body, "question", EmptyStr),
                  DictGet(body, "answer", EmptyStr),
                  DictGet(body, "difficulty", EmptyStr),
                  DictGet(body, "category", EmptyStr))

\* create_question reaches question.insert() and it succeeds
CreateInserts(body) ==
  /\ CreateValid(body)
  /\ InsertAccepts(DictGet(body, "question", EmptyStr),
                   DictGet(body, "answer", EmptyStr),
                   DictGet(body, "difficulty", EmptyStr),
                   DictGet(body, "category", EmptyStr))

\* POST /questions: the response
create_question(body) ==
  IF ~CreateValid(body) THEN abort(422)
  ELSE IF CreateInserts(body)
       THEN [NoResp EXCEPT !.status = 201, !.keys = {"success", "message"},
                           !.success = TRUE,
                           !.message = "Question successfully created!"]
       ELSE abort(422)

\* the first query of search_questions: the matching rows, in the table's
\* physical order
SearchQuery(rows, term) ==
  LET Matches(q) == ILikeTerm(q.question, term) IN SelectSeq(rows, Matches)

\* the rest of search_questions: found is the first query's result, rows the
\* table read by the second query, Question.query.all()
SearchRespond(found, rows) ==
  IF Len(found) = 0 THEN abort(404)
  ELSE [NoResp EXCEPT
          !.status = 200,
          !.keys = {"success", "questions", "total_questions"},
          !.success = TRUE,
          !.questions = FormatQuestions(found),
          !.total_questions = Len(rows)]

\* POST /questions/search served with no other request in between
search_questions(rows, body) ==
  LET search_term == DictGet(body, "searchTerm", EmptyStr)
  IN  IF search_term = EmptyStr THEN abort(422)
      ELSE SearchRespond(SearchQuery(rows, search_term.s), rows)

\* variant of get_questions_by_category: the result is cut to one page
get_questions_by_category_Paginated(rows, cats, id) ==
  LET IsCat(c) == c.id = id
      InCat(q) == q.category = id
      category == SelectSeq(cats, IsCat)
      found == PySlice(FormatQuestions(SelectSeq(rows, InCat)),
                       0, QUESTIONS_PER_PAGE)
  IN  IF category = <<>> THEN abort(422)
      ELSE [NoResp EXCEPT
              !.status = 200,
              !.keys = {"success", "questions", "total_questions",
                        "current_category"},
              !.success = TRUE,
              !.questions = found,
              !.total_questions = Len(found),
              !.current_category = category[1].type]

\* GET /categories/<int:id>/questions
get_questions_by_category(rows, cats, id) ==
  LET IsCat(c) == c.id = id
      InCat(q) == q.category = id
      category == SelectSeq(cats, IsCat)
      found == FormatQuestions(SelectSeq(rows, InCat))
  IN  IF category = <<>> THEN abort(422)
      ELSE [NoResp EXCEPT
              !.status = 200,
              !.keys = {"success", "questions", "total_questions",
                        "current_category"},
              !.success = TRUE,
              !.questions = found,
              !.total_questions = Len(found),
              !.current_category = category[1].type]

(* ------------------------------ routing ------------------------------- *)

\* the rules registered with @app.route, with their methods
Routes ==
  { [rule |-> "/categories", methods |-> {"GET"}, endpoint |-> "get_all_categories"],
    [rule |-> "/questions", methods |-> {"GET"}, endpoint |-> "get_questions"],
    [rule |-> "/questions/<int:id>", methods |-> {"DELETE"}, endpoint |-> "delete_question"],
    [rule |-> "/questions", methods |-> {"POST"}, endpoint |-> "create_question"],
    [rule |-> "/questions/search", methods |-> {"POST"}, endpoint |-> "search_questions"],
    [rule |-> "/categories/<int:id>/questions", methods |-> {"GET"},
     endpoint |-> "get_questions_by_category"] }

Methods == {"GET", "POST", "DELETE", "PUT"}

\* the registered rules and one path that matches none of them
Paths == {r.rule : r \in Routes} \cup {"/quizzes"}

\* the endpoint a request is dispatched to; "405" when the path matches only
\* rules of other methods, "404" when it matches no rule
Dispatch(method, path) ==
  IF \E r \in Routes : r.rule = path /\ method \in r.methods
  THEN (CHOOSE r \in Routes : r.rule = path /\ method \in r.methods).endpoint
  ELSE IF \E r \in Routes : r.rule = path THEN "405" ELSE "404"

(* ------------------------------- inputs ------------------------------- *)

QuestionValues == {Absent, EmptyStr, JStr(<<"b", "a">>)}
AnswerValues == {Absent, EmptyStr, JStr(<<"a">>)}
DifficultyValues == {Absent, EmptyStr, JInt(1), JStr(<<"a">>)}
CategoryValues == {Absent, EmptyStr, JInt(7), JStr(<<"2">>)}
SearchTerms ==
  {Absent, EmptyStr, JStr(<<"a">>), JStr(<<"B">>), JStr(<<"b", "a">>), JStr(<<"_">>)}
PageArgs == {Absent, JStr(<<"a">>)} \cup {JInt(p) : p \in -MaxPage .. MaxPage}
CategoryIds == 0 .. NumCategories + 1

NoBody ==
  [question |-> Absent, answer |-> Absent, difficulty |-> Absent,
   category |-> Absent, searchTerm |-> Absent]

NoReq == [op |-> "", method |-> "", path |-> "", arg |-> Absent, id |-> 0, body |-> NoBody]

Request(method, path) ==
  [NoReq EXCEPT !.op = Dispatch(method, path), !.method = method, !.path = path]

(* ---------------------------- initial state --------------------------- *)

\* seeded rows: texts alternate, all in category 1
SeedQuestion(i) ==
  [id |-> i,
   question |-> IF i % 2 = 1 THEN <<"a", "b">> ELSE <<"B">>,
   answer |-> <<"a">>,
   category |-> 1,
   difficulty |-> 1]

\* a seeded table of n rows; its physical order is not the order of the ids
SeedQuestions(n) ==
  [i \in 1 .. n |-> SeedQuestion(IF i = 1 THEN n ELSE i - 1)]

CategoryType(i) ==
  IF i = 1 THEN "Science" ELSE IF i = 2 THEN "Art" ELSE IF i = 3 THEN "Geography"
  ELSE IF i = 4 THEN "History" ELSE IF i = 5 THEN "Entertainment" ELSE "Sports"

SeedCategories ==
  [i \in 1 .. NumCategories |->
     [id |-> NumCategories + 1 - i, type |-> CategoryType(NumCategories + 1 - i)]]

SeedSizes == {0, 1} \cup {QUESTIONS_PER_PAGE + k : k \in 0 .. MaxExtra}

Idle == [pc |-> "idle", body |-> NoBody, found |-> <<>>]

Init ==
  /\ \E n \in SeedSizes : questions = SeedQuestions(n) /\ nextId = n + 1
  /\ categories = SeedCategories
  /\ req = NoReq
  /\ resp = NoResp
  /\ before = questions
  /\ created = NoRow
  /\ search = Idle
  /\ nreq = 0

(* ------------------------------ actions ------------------------------- *)

GetAllCategories ==
  /\ nreq < MaxRequests
  /\ \E method \in Methods, path \in Paths :
       /\ Dispatch(method, path) = "get_all_categories"
       /\ req' = Request(method, path)
       /\ resp' = get_all_categories(categories)
  /\ nreq' = nreq + 1
  /\ before' = questions
  /\ UNCHANGED <<questions, categories, nextId, created, search>>

GetQuestions ==
  /\ nreq < MaxRequests
  /\ \E method \in Methods, path \in Paths, arg \in PageArgs :
       /\ Dispatch(method, path) = "get_questions"
       /\ req' = [Request(method, path) EXCEPT !.arg = arg]
       /\ resp' = get_questions(questions, categories, arg)
  /\ nreq' = nreq + 1
  /\ before' = questions
  /\ UNCHANGED <<questions, categories, nextId, created, search>>

DeleteQuestion ==
  /\ nreq < MaxRequests
  /\ \E method \in Methods, path \in Paths, id \in {0, 1, 2, nextId - 1, nextId} :
       /\ Dispatch(method, path) = "delete_question"
       /\ req' = [Request(method, path) EXCEPT !.id = id]
       /\ resp' = delete_question(questions, id)
       /\ questions' = IF DeleteFinds(questions, id)
                       THEN DeleteRow(questions, id) ELSE questions
       /\ created' = IF DeleteFinds(questions, id) THEN NoRow ELSE created
  /\ nreq' = nreq + 1
  /\ before' = questions
  /\ UNCHANGED <<categories, nextId, search>>

CreateQuestion ==
  /\ nreq < MaxRequests
  /\ \E method \in Methods, path \in Paths :
       /\ Dispatch(method, path) = "create_question"
       /\ \E q \in QuestionValues, a \in AnswerValues,
             d \in DifficultyValues, c \in CategoryValues :
            LET body == [NoBody EXCEPT !.question = q, !.answer = a,
                                       !.difficulty = d, !.category = c]
                row == QuestionOf(body, nextId)
            IN  /\ req' = [Request(method, path) EXCEPT !.body = body]
                /\ resp' = create_question(body)
                /\ IF CreateInserts(body)
                   THEN /\ questions' = Append(questions, row)
                        /\ nextId' = nextId + 1
                        /\ created' = row
                   ELSE UNCHANGED <<questions, nextId, created>>
  /\ nreq' = nreq + 1
  /\ before' = questions
  /\ UNCHANGED <<categories, search>>

SearchQuestions ==
  /\ nreq < MaxRequests
  /\ search.pc = "idle"
  /\ \E method \in Methods, path \in Paths, term \in SearchTerms :
       LET body == [NoBody EXCEPT !.searchTerm = term]
       IN  /\ Dispatch(method, path) = "search_questions"
           /\ req' = [Request(method, path) EXCEPT !.body = body]
           /\ resp' = search_questions(questions, body)
  /\ nreq' = nreq + 1
  /\ before' = questions
  /\ UNCHANGED <<questions, categories, nextId, created, search>>

GetQuestionsByCategory ==
  /\ nreq < MaxRequests
  /\ \E method \in Methods, path \in Paths, id \in CategoryIds :
       /\ Dispatch(method, path) = "get_questions_by_category"
       /\ req' = [Request(method, path) EXCEPT !.id = id]
       /\ resp' = get_questions_by_category(questions, categories, id)
  /\ nreq' = nreq + 1
  /\ before' = questions
  /\ UNCHANGED <<questions, categories, nextId, created, search>>

\* a request for a registered path with a method none of its rules allows
MethodNotAllowed ==
  /\ nreq < MaxRequests
  /\ \E method \in Methods, path \in Paths :
       /\ Dispatch(method, path) = "405"
       /\ req' = Request(method, path)
       /\ resp' = method_not_allowed
  /\ nreq' = nreq + 1
  /\ before' = questions
  /\ UNCHANGED <<questions, categories, nextId, created, search>>

\* a request for a path no rule matches
NoRoute ==
  /\ nreq < MaxRequests
  /\ \E method \in Methods, path \in Paths :
       /\ Dispatch(method, path) = "404"
       /\ req' = Request(method, path)
       /\ resp' = abort(404)
  /\ nreq' = nreq + 1
  /\ before' = questions
  /\ UNCHANGED <<questions, categories, nextId, created, search>>

Next ==
  \/ GetAllCategories
  \/ GetQuestions
  \/ DeleteQuestion
  \/ CreateQuestion
  \/ SearchQuestions
  \/ GetQuestionsByCategory
  \/ MethodNotAllowed
  \/ NoRoute

Spec == Init /\ [][Next]_vars

(* search_questions of one client, its two queries interleaved with the    *)
(* requests of other clients                                               *)

\* the handler up to and including its first query and the test of its result
SearchBegin ==
  /\ nreq < MaxRequests
  /\ search.pc = "idle"
  /\ \E term \in SearchTerms :
       LET body == [NoBody EXCEPT !.searchTerm = term]
           search_term == DictGet(body, "searchTerm", EmptyStr)
           found == SearchQuery(questions, search_term.s)
           r == [Request("POST", "/questions/search") EXCEPT !.body = body]
       IN  IF search_term = EmptyStr
           THEN /\ req' = r
                /\ resp' = abort(422)
                /\ nreq' = nreq + 1
                /\ search' = search
           ELSE IF Len(found) = 0
           THEN /\ req' = r
                /\ resp' = SearchRespond(found, questions)
                /\ nreq' = nreq + 1
                /\ search' = search
           ELSE /\ search' = [pc |-> "counting", body |-> body, found |-> found]
                /\ UNCHANGED <<req, resp, nreq>>
  /\ before' = questions
  /\ UNCHANGED <<questions, categories, nextId, created>>

\* the second query, Question.query.all(), and the response
SearchFinish ==
  /\ search.pc = "counting"
  /\ req' = [Request("POST", "/questions/search") EXCEPT !.body = search.body]
  /\ resp' = SearchRespond(search.found, questions)
  /\ search' = Idle
  /\ nreq' = nreq + 1
  /\ before' = questions
  /\ UNCHANGED <<questions, categories, nextId, created>>

NextConc ==
  \/ SearchBegin
  \/ SearchFinish
  \/ CreateQuestion
  \/ DeleteQuestion

SpecConc == Init /\ [][NextConc]_vars

(* ------------------------------ properties ---------------------------- *)

Range(s) == {s[i] : i \in DOMAIN s}

\* the page number a request asks for: the page argument, 1 when there is none
PageAsked == IF req.arg.t = "int" THEN req.arg.n ELSE 1

\* the row at 0-based position k of the rows ordered by id ascending
RowAt(rows, k) ==
  CHOOSE q \in Range(rows) : Cardinality({r \in Range(rows) : r.id < q.id}) = k

\* term occurs in text, letter case ignored
IsSubstring(term, text) ==
  \E i \in 0 .. Len(text) - Len(term) :
    \A j \in 1 .. Len(term) : Lower(term[j]) = Lower(text[i + j])

IsBlank(v) == v = Absent \/ v = EmptyStr

CreateFields == {"question", "answer", "difficulty", "category"}

\* C1: GET /questions?page=N, for every integer N (1 when absent), answers 404
\* when no question lies at a 0-based position in [(N-1)*10, (N-1)*10+10) of
\* the questions ordered by id, and otherwise 200 with exactly the questions at
\* those positions, in that order.
C1_PageWindow ==
  (req.op = "get_questions" /\ req.arg.t # "str") =>
    LET lo == (PageAsked - 1) * QUESTIONS_PER_PAGE
        W == {k \in 0 .. Len(questions) - 1 : lo <= k /\ k < lo + QUESTIONS_PER_PAGE}
    IN  IF W = {} THEN resp.status = 404
        ELSE /\ resp.status = 200
             /\ Len(resp.questions) = Cardinality(W)
             /\ \A k \in W :
                  resp.questions[k - lo + 1] = FormatQuestion(RowAt(questions, k))

\* C2: every 200 response of GET /questions holds between 1 and 10 questions
\* and a total_questions equal to the number of questions in the store.
C2_ListCount ==
  (req.op = "get_questions" /\ resp.status = 200) =>
    /\ Len(resp.questions) >= 1
    /\ Len(resp.questions) <= QUESTIONS_PER_PAGE
    /\ resp.total_questions = Len(questions)

\* a page of GET /questions that is shorter than the store
C2_Witness ==
  /\ req.op = "get_questions"
  /\ resp.status = 200
  /\ Len(resp.questions) < Len(questions)

\* C3: POST /questions with a field that is empty or absent answers 422 and
\* leaves the questions as they were.
C3_EmptyFieldRejected ==
  (req.op = "create_question" /\ \E k \in CreateFields : IsBlank(req.body[k])) =>
    /\ resp.status = 422
    /\ questions = before

\* a create whose only blank field is the answer
C3_Witness ==
  /\ req.op = "create_question"
  /\ req.body.answer = EmptyStr
  /\ \A k \in CreateFields \ {"answer"} : ~IsBlank(req.body[k])
  /\ IntColumnAccepts(req.body.difficulty)
  /\ resp.status = 422

C5_Delete ==
  req.op = "delete_question" =>
    IF req.id \in Ids(before)
    THEN /\ resp.status = 200
         /\ Range(questions) = {q \in Range(before) : q.id # req.id}
         /\ Len(questions) = Len(before) - 1
         /\ categories = SeedCategories
    ELSE /\ resp.status = 422
         /\ questions = before
         /\ categories = SeedCategories

\* a delete of an id that an earlier delete removed
C5_Witness ==
  /\ req.op = "delete_question"
  /\ req.id >= 1
  /\ req.id < nextId
  /\ req.id \notin Ids(before)
  /\ resp.status = 422

\* C6: POST /questions/search answers 422 for an empty or absent searchTerm,
\* 404 when the term is a case-insensitive substring of no question text, and
\* otherwise 200 with exactly the questions whose text contains the term and
\* total_questions equal to the number of all questions.
C6_SearchSubstring ==
  req.op = "search_questions" =>
    LET term == req.body.searchTerm
        M == {q \in Range(questions) : IsSubstring(term.s, q.question)}
    IN  IF IsBlank(term) THEN resp.status = 422
        ELSE IF M = {} THEN resp.status = 404
        ELSE /\ resp.status = 200
             /\ Range(resp.questions) = {FormatQuestion(q) : q \in M}
             /\ Len(resp.questions) = Cardinality(M)
             /\ resp.total_questions = Len(questions)

C8_CategoriesReadOnly ==
  req.op = "get_all_categories" =>
    /\ resp.status = 200
    /\ resp.success
    /\ "categories" \in resp.keys
    /\ Len(resp.categories) = NumCategories
    /\ Range(resp.categories) =
         {[id |-> i, type |-> CategoryType(i)] : i \in 1 .. NumCategories}

\* the categories listed after a request that changed the questions
C8_Witness ==
  /\ req.op = "get_all_categories"
  /\ questions # SeedQuestions(Len(questions))
  /\ resp.status = 200

\* C9: every response carries a boolean success, true exactly for status 200
\* or 201; every failing response has status 404, 422 or 500 and the body
\* {success: false, error: status, message: the fixed text of the status}.
C9_Envelope ==
  nreq > 0 =>
    /\ "success" \in resp.keys
    /\ resp.success <=> resp.status \in {200, 201}
    /\ ~resp.success =>
         /\ resp.status \in {404, 422, 500}
         /\ resp.keys = {"success", "error", "message"}
         /\ resp.error = resp.status
         /\ resp.message =
              IF resp.status = 404 THEN "Resource not found"
              ELSE IF resp.status = 422 THEN "Unprocessable entity"
              ELSE "An error has occured, please try again"

\* C10: a 200 response of POST /questions/search describes one state of the
\* store although other clients' requests interleave: total_questions is at
\* least the number of questions returned.
C10_SearchSnapshot ==
  (req.op = "search_questions" /\ resp.status = 200) =>
    resp.total_questions >= Len(resp.questions)

====
